---- MODULE Spec2Model ----
(***************************************************************************)
(* Model of galette's Blueprint assembler (src/blueprint.rs): the lowering *)
(* of parsed equations to terms and the per-OLMC accumulator.              *)
(*                                                                         *)
(* Option<T> is modelled as a sequence of length 0 (None) or 1 (Some(x)).  *)
(* Result<(), ErrorCode> is modelled as a string: "Ok" or the error code.  *)
(***************************************************************************)
EXTENDS Integers, Sequences, FiniteSets, TLC

----------------------------------------------------------------------------
(* Bounds of the model.                                                    *)

\* Longest content.eqns handed to Blueprint::from.
MaxEqns == 2

\* Most add_equation calls made on one Blueprint through the public API.
MaxCalls == 3

\* Source line of the equation before the first one (header lines above).
LineBase == 4

\* Longest rhs and is_or of an equation handed to eqn_to_term alone.
MaxLen == 2
MaxHot == 1

----------------------------------------------------------------------------
(* Chip descriptor.                                                        *)

Chips == {"GAL16V8", "GAL20V8", "GAL22V10", "GAL20RA10"}

num_pins(chip) == IF chip = "GAL16V8" THEN 20 ELSE 24

num_olmcs(chip) ==
    CASE chip = "GAL16V8"   -> 8
      [] chip = "GAL20V8"   -> 8
      [] chip = "GAL22V10"  -> 10
      [] chip = "GAL20RA10" -> 10

\* First pin that has an OLMC.
olmc_base(chip) ==
    CASE chip = "GAL16V8"   -> 12
      [] chip = "GAL20V8"   -> 15
      [] chip = "GAL22V10"  -> 14
      [] chip = "GAL20RA10" -> 14

\* Option<usize>: <<>> for a pin without an OLMC.
pin_to_olmc(chip, pin) ==
    IF pin >= olmc_base(chip) /\ pin < olmc_base(chip) + num_olmcs(chip)
    THEN << pin - olmc_base(chip) >>
    ELSE << >>

----------------------------------------------------------------------------
(* Term model.                                                             *)

Lit(p, n) == [pin |-> p, neg |-> n]

Term(line, ors) == [line_num |-> line, pins |-> ors]

\* One empty AND-group: always true.
true_term(line) == Term(line, << << >> >>)

\* No AND-group: always false.
false_term(line) == Term(line, << >>)

----------------------------------------------------------------------------
(* Equation-to-term lowering.                                              *)

Min(a, b) == IF a < b THEN a ELSE b

\* The loop without the is_or test: every literal joins the open group.
lower_from_flat(rhs, is_or, i, ors, ands) ==
    Append(ors, ands \o SubSeq(rhs, i, Min(Len(rhs), Len(is_or))))

\* The loop of eqn_to_term over rhs.iter().zip(is_or.iter()), from
\* position i on, with ors the closed groups and ands the open group.
RECURSIVE lower_from(_, _, _, _, _)
lower_from(rhs, is_or, i, ors, ands) ==
    IF i > Min(Len(rhs), Len(is_or))
    THEN Append(ors, ands)
    ELSE IF is_or[i]
         THEN lower_from(rhs, is_or, i + 1, Append(ors, ands), << rhs[i] >>)
         ELSE lower_from(rhs, is_or, i + 1, ors, Append(ands, rhs[i]))

\* eqn_to_term taking pin num_pins+1 for VCC.
eqn_to_term_vcc_above(chip, eqn) ==
    IF Len(eqn.rhs) = 1 /\ eqn.rhs[1].pin = num_pins(chip) + 1
    THEN IF eqn.rhs[1].neg
         THEN [code |-> "InvertedPower", term |-> << >>]
         ELSE [code |-> "Ok", term |-> << true_term(eqn.line_num) >>]
    ELSE IF Len(eqn.rhs) = 1 /\ eqn.rhs[1].pin = num_pins(chip) \div 2
    THEN IF eqn.rhs[1].neg
         THEN [code |-> "InvertedPower", term |-> << >>]
         ELSE [code |-> "Ok", term |-> << false_term(eqn.line_num) >>]
    ELSE [code |-> "Ok",
          term |-> << Term(eqn.line_num,
                           lower_from(eqn.rhs, eqn.is_or, 1, << >>, << >>)) >>]

\* eqn_to_term without the negation check on GND.
eqn_to_term_gnd_unchecked(chip, eqn) ==
    IF Len(eqn.rhs) = 1 /\ eqn.rhs[1].pin = num_pins(chip)
    THEN IF eqn.rhs[1].neg
         THEN [code |-> "InvertedPower", term |-> << >>]
         ELSE [code |-> "Ok", term |-> << true_term(eqn.line_num) >>]
    ELSE IF Len(eqn.rhs) = 1 /\ eqn.rhs[1].pin = num_pins(chip) \div 2
    THEN [code |-> "Ok", term |-> << false_term(eqn.line_num) >>]
    ELSE [code |-> "Ok",
          term |-> << Term(eqn.line_num,
                           lower_from(eqn.rhs, eqn.is_or, 1, << >>, << >>)) >>]

\* Result<Term, ErrorCode> as [code, term : Option<Term>].
eqn_to_term(chip, eqn) ==
    IF Len(eqn.rhs) = 1 /\ eqn.rhs[1].pin = num_pins(chip)
    THEN IF eqn.rhs[1].neg
         THEN [code |-> "InvertedPower", term |-> << >>]
         ELSE [code |-> "Ok", term |-> << true_term(eqn.line_num) >>]
    ELSE IF Len(eqn.rhs) = 1 /\ eqn.rhs[1].pin = num_pins(chip) \div 2
    THEN IF eqn.rhs[1].neg
         THEN [code |-> "InvertedPower", term |-> << >>]
         ELSE [code |-> "Ok", term |-> << false_term(eqn.line_num) >>]
    ELSE [code |-> "Ok",
          term |-> << Term(eqn.line_num,
                           lower_from(eqn.rhs, eqn.is_or, 1, << >>, << >>)) >>]

----------------------------------------------------------------------------
(* The OLMC record and its setters.  Each setter returns the result code   *)
(* and the record as the call leaves it.                                   *)

new_olmc ==
    [active |-> "Low", output |-> << >>, tri_con |-> << >>, clock |-> << >>,
     arst |-> << >>, aprst |-> << >>, feedback |-> FALSE]

BaseSuffixes == {"None", "R", "T"}
Suffixes == BaseSuffixes \cup {"E", "CLK", "ARST", "APRST"}

suffix_mode(suffix) ==
    CASE suffix = "T"    -> "Tristate"
      [] suffix = "R"    -> "Registered"
      [] suffix = "None" -> "Combinatorial"

\* set_base without the RepeatedOutput check.
set_base_overwrite(olmc, act_pin, term, suffix) ==
    [code |-> "Ok",
     olmc |-> [olmc EXCEPT
                 !.output = << [mode |-> suffix_mode(suffix), term |-> term] >>,
                 !.active = IF act_pin.neg THEN "Low" ELSE "High"]]

set_base(olmc, act_pin, term, suffix) ==
    IF olmc.output # << >>
    THEN [code |-> "RepeatedOutput", olmc |-> olmc]
    ELSE [code |-> "Ok",
          olmc |-> [olmc EXCEPT
                      !.output = << [mode |-> suffix_mode(suffix), term |-> term] >>,
                      !.active = IF act_pin.neg THEN "Low" ELSE "High"]]

\* set_enable without the TristateReg check.
set_enable_any_chip(olmc, chip, act_pin, term) ==
    IF act_pin.neg
    THEN [code |-> "InvertedControl", olmc |-> olmc]
    ELSE IF olmc.tri_con # << >>
    THEN [code |-> "RepeatedTristate", olmc |-> olmc]
    ELSE LET stored == [olmc EXCEPT !.tri_con = << term >>] IN
         IF olmc.output = << >>
         THEN [code |-> "PrematureENABLE", olmc |-> stored]
         ELSE IF olmc.output[1].mode = "Combinatorial"
         THEN [code |-> "UnmatchedTristate", olmc |-> stored]
         ELSE [code |-> "Ok", olmc |-> stored]

\* set_enable that looks at the output before the RepeatedTristate check.
set_enable_premature_first(olmc, chip, act_pin, term) ==
    IF act_pin.neg
    THEN [code |-> "InvertedControl", olmc |-> olmc]
    ELSE IF olmc.output = << >>
    THEN [code |-> "PrematureENABLE", olmc |-> olmc]
    ELSE IF olmc.tri_con # << >>
    THEN [code |-> "RepeatedTristate", olmc |-> olmc]
    ELSE LET stored == [olmc EXCEPT !.tri_con = << term >>] IN
         IF olmc.output[1].mode = "Registered"
            /\ chip \in {"GAL16V8", "GAL20V8"}
         THEN [code |-> "TristateReg", olmc |-> stored]
         ELSE IF olmc.output[1].mode = "Combinatorial"
         THEN [code |-> "UnmatchedTristate", olmc |-> stored]
         ELSE [code |-> "Ok", olmc |-> stored]

set_enable(olmc, chip, act_pin, term) ==
    IF act_pin.neg
    THEN [code |-> "InvertedControl", olmc |-> olmc]
    ELSE IF olmc.tri_con # << >>
    THEN [code |-> "RepeatedTristate", olmc |-> olmc]
    ELSE LET stored == [olmc EXCEPT !.tri_con = << term >>] IN
         IF olmc.output = << >>
         THEN [code |-> "PrematureENABLE", olmc |-> stored]
         ELSE IF olmc.output[1].mode = "Registered"
                 /\ chip \in {"GAL16V8", "GAL20V8"}
         THEN [code |-> "TristateReg", olmc |-> stored]
         ELSE IF olmc.output[1].mode = "Combinatorial"
         THEN [code |-> "UnmatchedTristate", olmc |-> stored]
         ELSE [code |-> "Ok", olmc |-> stored]

\* set_clock without the PrematureCLK check.
set_clock_no_premature(olmc, act_pin, term) ==
    IF act_pin.neg
    THEN [code |-> "InvertedControl", olmc |-> olmc]
    ELSE IF olmc.output # << >> /\ olmc.output[1].mode # "Registered"
    THEN [code |-> "InvalidControl", olmc |-> olmc]
    ELSE IF olmc.clock # << >>
    THEN [code |-> "RepeatedCLK", olmc |-> olmc]
    ELSE [code |-> "Ok", olmc |-> [olmc EXCEPT !.clock = << term >>]]

\* set_clock without the RepeatedCLK check.
set_clock_overwrite(olmc, act_pin, term) ==
    IF act_pin.neg
    THEN [code |-> "InvertedControl", olmc |-> olmc]
    ELSE IF olmc.output = << >>
    THEN [code |-> "PrematureCLK", olmc |-> olmc]
    ELSE IF olmc.output[1].mode # "Registered"
    THEN [code |-> "InvalidControl", olmc |-> olmc]
    ELSE [code |-> "Ok", olmc |-> [olmc EXCEPT !.clock = << term >>]]

set_clock(olmc, act_pin, term) ==
    IF act_pin.neg
    THEN [code |-> "InvertedControl", olmc |-> olmc]
    ELSE IF olmc.output = << >>
    THEN [code |-> "PrematureCLK", olmc |-> olmc]
    ELSE IF olmc.output[1].mode # "Registered"
    THEN [code |-> "InvalidControl", olmc |-> olmc]
    ELSE IF olmc.clock # << >>
    THEN [code |-> "RepeatedCLK", olmc |-> olmc]
    ELSE [code |-> "Ok", olmc |-> [olmc EXCEPT !.clock = << term >>]]

\* set_arst without the InvalidControl check.
set_arst_any_mode(olmc, act_pin, term) ==
    IF act_pin.neg
    THEN [code |-> "InvertedControl", olmc |-> olmc]
    ELSE IF olmc.output = << >>
    THEN [code |-> "PrematureARST", olmc |-> olmc]
    ELSE IF olmc.arst # << >>
    THEN [code |-> "RepeatedARST", olmc |-> olmc]
    ELSE [code |-> "Ok", olmc |-> [olmc EXCEPT !.arst = << term >>]]

set_arst(olmc, act_pin, term) ==
    IF act_pin.neg
    THEN [code |-> "InvertedControl", olmc |-> olmc]
    ELSE IF olmc.output = << >>
    THEN [code |-> "PrematureARST", olmc |-> olmc]
    ELSE IF olmc.output[1].mode # "Registered"
    THEN [code |-> "InvalidControl", olmc |-> olmc]
    ELSE IF olmc.arst # << >>
    THEN [code |-> "RepeatedARST", olmc |-> olmc]
    ELSE [code |-> "Ok", olmc |-> [olmc EXCEPT !.arst = << term >>]]

\* set_aprst taking an empty output for a non-Registered one.
set_aprst_empty_invalid(olmc, act_pin, term) ==
    IF act_pin.neg
    THEN [code |-> "InvertedControl", olmc |-> olmc]
    ELSE IF ~ (olmc.output # << >> /\ olmc.output[1].mode = "Registered")
    THEN [code |-> "InvalidControl", olmc |-> olmc]
    ELSE IF olmc.aprst # << >>
    THEN [code |-> "RepeatedAPRST", olmc |-> olmc]
    ELSE [code |-> "Ok", olmc |-> [olmc EXCEPT !.aprst = << term >>]]

set_aprst(olmc, act_pin, term) ==
    IF act_pin.neg
    THEN [code |-> "InvertedControl", olmc |-> olmc]
    ELSE IF olmc.output = << >>
    THEN [code |-> "PrematureAPRST", olmc |-> olmc]
    ELSE IF olmc.output[1].mode # "Registered"
    THEN [code |-> "InvalidControl", olmc |-> olmc]
    ELSE IF olmc.aprst # << >>
    THEN [code |-> "RepeatedAPRST", olmc |-> olmc]
    ELSE [code |-> "Ok", olmc |-> [olmc EXCEPT !.aprst = << term >>]]

----------------------------------------------------------------------------
(* Blueprint.  A blueprint value is the record [chip, sig, pins, olmcs,    *)
(* ar, sp]; olmcs is indexed 0 .. num_olmcs(chip)-1 as the Vec is.         *)

new(c) ==
    [chip |-> c, sig |-> << >>, pins |-> << >>,
     olmcs |-> [i \in 0 .. num_olmcs(c) - 1 |-> new_olmc],
     ar |-> << >>, sp |-> << >>]

\* mark_feedback looking at the first RHS literal only.
mark_feedback_first(c, olmcs, rhs, i) ==
    IF Len(rhs) = 0 \/ pin_to_olmc(c, rhs[1].pin) = << >>
    THEN olmcs
    ELSE [olmcs EXCEPT ![pin_to_olmc(c, rhs[1].pin)[1]].feedback = TRUE]

\* The feedback loop at the head of add_equation, from RHS position i on.
RECURSIVE mark_feedback(_, _, _, _)
mark_feedback(c, olmcs, rhs, i) ==
    IF i > Len(rhs)
    THEN olmcs
    ELSE LET o == pin_to_olmc(c, rhs[i].pin) IN
         mark_feedback(c,
                       IF o # << >>
                       THEN [olmcs EXCEPT ![o[1]].feedback = TRUE]
                       ELSE olmcs,
                       rhs, i + 1)

\* The suffix dispatch at the tail of add_equation.
\* The suffix dispatch with the ARST arm calling set_aprst.
dispatch_arst_as_aprst(olmc, c, act_pin, suffix, term) ==
    CASE suffix \in BaseSuffixes -> set_base(olmc, act_pin, term, suffix)
      [] suffix = "E"            -> set_enable(olmc, c, act_pin, term)
      [] suffix = "CLK"          -> set_clock(olmc, act_pin, term)
      [] suffix = "ARST"         -> set_aprst(olmc, act_pin, term)
      [] suffix = "APRST"        -> set_aprst(olmc, act_pin, term)

dispatch(olmc, c, act_pin, suffix, term) ==
    CASE suffix \in BaseSuffixes -> set_base(olmc, act_pin, term, suffix)
      [] suffix = "E"            -> set_enable(olmc, c, act_pin, term)
      [] suffix = "CLK"          -> set_clock(olmc, act_pin, term)
      [] suffix = "ARST"         -> set_arst(olmc, act_pin, term)
      [] suffix = "APRST"        -> set_aprst(olmc, act_pin, term)

\* add_equation that accepts an LHS pin without an OLMC and does nothing.
add_equation_any_pin(bp, eqn) ==
    LET marked == [bp EXCEPT !.olmcs = mark_feedback(bp.chip, bp.olmcs, eqn.rhs, 1)]
        lowered == eqn_to_term(bp.chip, eqn)
    IN  IF lowered.code # "Ok"
        THEN [code |-> lowered.code, bp |-> marked]
        ELSE LET term == lowered.term[1] IN
        CASE eqn.lhs.kind = "Ar" ->
               IF marked.ar # << >>
               THEN [code |-> "RepeatedARSP", bp |-> marked]
               ELSE [code |-> "Ok", bp |-> [marked EXCEPT !.ar = << term >>]]
          [] eqn.lhs.kind = "Sp" ->
               IF marked.sp # << >>
               THEN [code |-> "RepeatedARSP", bp |-> marked]
               ELSE [code |-> "Ok", bp |-> [marked EXCEPT !.sp = << term >>]]
          [] eqn.lhs.kind = "Pin" ->
               LET o == pin_to_olmc(marked.chip, eqn.lhs.pin.pin) IN
               IF o = << >>
               THEN [code |-> "Ok", bp |-> marked]
               ELSE LET r == dispatch(marked.olmcs[o[1]], marked.chip,
                                      eqn.lhs.pin, eqn.lhs.suffix, term)
                    IN  [code |-> r.code,
                         bp |-> [marked EXCEPT !.olmcs[o[1]] = r.olmc]]

\* add_equation on blueprint bp: the result code and the blueprint as the
\* call leaves it (the call mutates through &mut self, also when it fails).
add_equation(bp, eqn) ==
    LET marked == [bp EXCEPT !.olmcs = mark_feedback(bp.chip, bp.olmcs, eqn.rhs, 1)]
        lowered == eqn_to_term(bp.chip, eqn)
    IN  IF lowered.code # "Ok"
        THEN [code |-> lowered.code, bp |-> marked]
        ELSE LET term == lowered.term[1] IN
        CASE eqn.lhs.kind = "Ar" ->
               IF marked.ar # << >>
               THEN [code |-> "RepeatedARSP", bp |-> marked]
               ELSE [code |-> "Ok", bp |-> [marked EXCEPT !.ar = << term >>]]
          [] eqn.lhs.kind = "Sp" ->
               IF marked.sp # << >>
               THEN [code |-> "RepeatedARSP", bp |-> marked]
               ELSE [code |-> "Ok", bp |-> [marked EXCEPT !.sp = << term >>]]
          [] eqn.lhs.kind = "Pin" ->
               LET o == pin_to_olmc(marked.chip, eqn.lhs.pin.pin) IN
               IF o = << >>
               THEN [code |-> "NotAnOutput", bp |-> marked]
               ELSE LET r == dispatch(marked.olmcs[o[1]], marked.chip,
                                      eqn.lhs.pin, eqn.lhs.suffix, term)
                    IN  [code |-> r.code,
                         bp |-> [marked EXCEPT !.olmcs[o[1]] = r.olmc]]

----------------------------------------------------------------------------
(* Inputs.                                                                 *)

FirstOlmcPin(c) == olmc_base(c)
LastOlmcPin(c) == olmc_base(c) + num_olmcs(c) - 1

\* LHS::Ar and LHS::Sp carry no pin; the record keeps one shape.
NoPin == Lit(0, FALSE)

LhsAr == [kind |-> "Ar", pin |-> NoPin, suffix |-> "None"]
LhsSp == [kind |-> "Sp", pin |-> NoPin, suffix |-> "None"]
LhsPin(p, n, s) == [kind |-> "Pin", pin |-> Lit(p, n), suffix |-> s]

\* The chip's last output pin, non-negated, with every suffix.
OutLhs(c) == {LhsPin(LastOlmcPin(c), FALSE, s) : s \in Suffixes}

\* AR, SP, the chip's last output pin with every suffix and either
\* polarity, and input pin 1.
FromLhs(c) ==
    {LhsAr, LhsSp}
    \cup OutLhs(c)
    \cup {LhsPin(LastOlmcPin(c), TRUE, s) : s \in Suffixes}
    \cup {LhsPin(1, FALSE, "None")}

\* Input pin 1 with the other suffixes.
InputLhs == {LhsPin(1, FALSE, s) : s \in Suffixes \ {"None"}}

\* Input pin 1 negated, as a base and as a modifier equation.
NegInputLhs == {LhsPin(1, TRUE, s) : s \in {"None", "E", "CLK"}}

Rhs(lits, flags) == [rhs |-> lits, is_or |-> flags]

\* I2 + /O<first>: two AND-groups, reads the chip's first output pin.
RhsSum(c) == Rhs(<< Lit(2, FALSE), Lit(FirstOlmcPin(c), TRUE) >>, << FALSE, TRUE >>)
\* /VCC alone.
RhsNotVcc(c) == Rhs(<< Lit(num_pins(c), TRUE) >>, << FALSE >>)
\* GND alone.
RhsGnd(c) == Rhs(<< Lit(num_pins(c) \div 2, FALSE) >>, << FALSE >>)
\* /GND alone.
RhsNotGnd(c) == Rhs(<< Lit(num_pins(c) \div 2, TRUE) >>, << FALSE >>)
\* I2 & /VCC: a negated power rail among several literals.
RhsAndNotVcc(c) == Rhs(<< Lit(2, FALSE), Lit(num_pins(c), TRUE) >>, << FALSE, FALSE >>)

Equation(line, lhs, r) ==
    [line_num |-> line, lhs |-> lhs, rhs |-> r.rhs, is_or |-> r.is_or]

\* Equations handed to Blueprint::from: every left-hand side with an
\* ordinary sum, the output pin's with /VCC, two with GND.
FromEqns(c, line) ==
    {Equation(line, l, RhsSum(c)) : l \in FromLhs(c)}
    \cup {Equation(line, l, RhsNotVcc(c)) : l \in OutLhs(c)}
    \cup {Equation(line, l, RhsGnd(c)) : l \in {LhsPin(LastOlmcPin(c), FALSE, "R"), LhsAr}}

\* Equations handed to add_equation directly: every left-hand side with
\* an ordinary sum, the output pin's with /VCC, and a negated power rail
\* alone (/GND) and among several literals (I2 & /VCC).
CallEqns(c, line) ==
    {Equation(line, l, RhsSum(c)) : l \in FromLhs(c) \cup InputLhs}
    \cup {Equation(line, l, RhsNotVcc(c)) : l \in OutLhs(c)}
    \cup {Equation(line, l, RhsNotGnd(c)) : l \in {LhsPin(LastOlmcPin(c), FALSE, "None"), LhsAr}}
    \cup {Equation(line, LhsPin(LastOlmcPin(c), FALSE, "None"), RhsAndNotVcc(c))}
    \cup {Equation(line, l, RhsSum(c)) : l \in NegInputLhs \cup {LhsPin(num_pins(c), FALSE, "None")}}
    \cup {Equation(line, LhsPin(1, FALSE, "None"), RhsNotVcc(c))}

\* Equations handed to eqn_to_term: right-hand sides of up to MaxLen
\* literals over input, power and output pins, with is_or of any length
\* up to MaxLen.
RECURSIVE SeqsOver(_, _)
SeqsOver(S, n) ==
    IF n = 0
    THEN {<< >>}
    ELSE {<< >>} \cup {Append(s, x) : s \in SeqsOver(S, n - 1), x \in S}

TermPins(c) ==
    {2, num_pins(c) \div 2, num_pins(c), num_pins(c) + 1,
     FirstOlmcPin(c), LastOlmcPin(c)}

TermLits(c) == {Lit(p, n) : p \in TermPins(c), n \in BOOLEAN}

TermEqns(c, line) ==
    {Equation(line, LhsPin(LastOlmcPin(c), FALSE, "None"), Rhs(lits, flags)) :
        lits \in SeqsOver(TermLits(c), MaxLen),
        flags \in SeqsOver(BOOLEAN, MaxLen)}

\* Equation k of a source file sits on line LineBase + k.
RECURSIVE EqnSeqs(_, _)
EqnSeqs(c, n) ==
    IF n = 0
    THEN {<< >>}
    ELSE {Append(s, e) : s \in EqnSeqs(c, n - 1), e \in FromEqns(c, LineBase + n)}

\* The signature and the pin names of the source file.
Header == [sig |-> << 71, 65, 76 >>, pins |-> << "Clock", "D0" >>]

Content(c, eqns) ==
    [chip |-> c, sig |-> Header.sig, pins |-> Header.pins, eqns |-> eqns]

NoContent(c) == [chip |-> c, sig |-> << >>, pins |-> << >>, eqns |-> << >>]

----------------------------------------------------------------------------
(* State.                                                                  *)

VARIABLES
    chip, sig, pins, olmcs, ar, sp,  \* the fields of the Blueprint
    content,                         \* the Content given to Blueprint::from
    next,                            \* position of from's loop in content.eqns
    result,                          \* what from has returned
    calls,                           \* add_equation calls made so far
    eqn,                             \* Option: the equation of the last call
    lowered,                         \* Option: eqn_to_term's result in that call
    ret,                             \* Option: the result code of that call
    row_call,                        \* a make_row call: arguments and output
    fuse_call,                       \* a make_fuse call: arguments, locals, output
    pin_call                         \* a make_pin call: arguments, locals, output

vars == << chip, sig, pins, olmcs, ar, sp, content, next, result,
           calls, eqn, lowered, ret, row_call, fuse_call, pin_call >>

\* The variables of the Blueprint side and those of the report generator.
bvars == << chip, sig, pins, olmcs, ar, sp, content, next, result,
            calls, eqn, lowered, ret >>
wvars == << row_call, fuse_call, pin_call >>

\* No call of that function is under way.
NoCall == [pc |-> "none"]

WriterIdle == row_call = NoCall /\ fuse_call = NoCall /\ pin_call = NoCall

blueprint ==
    [chip |-> chip, sig |-> sig, pins |-> pins, olmcs |-> olmcs,
     ar |-> ar, sp |-> sp]

Running == [tag |-> "Running", code |-> "", line |-> 0]
OkResult == [tag |-> "Ok", code |-> "", line |-> 0]

\* errors::at_line: the error code together with the source line.
at_line(line, code) == [tag |-> "Err", code |-> code, line |-> line]

\* The state after Blueprint::new(c).
Fresh(c) ==
    /\ chip = c
    /\ sig = new(c).sig
    /\ pins = new(c).pins
    /\ olmcs = new(c).olmcs
    /\ ar = new(c).ar
    /\ sp = new(c).sp
    /\ calls = 0
    /\ lowered = << >>
    /\ ret = << >>

\* One call blueprint.add_equation(e).
Call(e) ==
    LET r == add_equation(blueprint, e) IN
    /\ olmcs' = r.bp.olmcs
    /\ ar' = r.bp.ar
    /\ sp' = r.bp.sp
    /\ chip' = r.bp.chip
    /\ sig' = r.bp.sig
    /\ pins' = r.bp.pins
    /\ calls' = calls + 1
    /\ eqn' = << e >>
    /\ lowered' = << eqn_to_term(chip, e) >>
    /\ ret' = << r.code >>
    /\ UNCHANGED wvars

----------------------------------------------------------------------------
(* Spec: a Blueprint built with Blueprint::new and driven through the      *)
(* public add_equation, the caller going on after errors.                  *)

Init ==
    /\ \E c \in Chips : Fresh(c) /\ content = NoContent(c)
    /\ WriterIdle
    /\ eqn = << >>
    /\ next = 0
    /\ result = Running

AddEquation ==
    /\ calls < MaxCalls
    /\ \E e \in CallEqns(chip, LineBase + calls + 1) : Call(e)
    /\ UNCHANGED << content, next, result >>

Next == AddEquation

Spec == Init /\ [][Next]_vars

----------------------------------------------------------------------------
(* SpecFrom: one run of Blueprint::from(content).                          *)

InitFrom ==
    /\ \E c \in Chips : \E n \in 0 .. MaxEqns : \E s \in EqnSeqs(c, n) :
          content = Content(c, s) /\ Fresh(c)
    /\ WriterIdle
    /\ eqn = << >>
    /\ next = 1
    /\ result = Running

\* from_step going on to the next equation after an error.
from_step_continue(res, k, line, code) == [result |-> res, next |-> k + 1]

\* One iteration of the loop: add_equation, then at_line and `?`.
from_step(res, k, line, code) ==
    IF code = "Ok"
    THEN [result |-> res, next |-> k + 1]
    ELSE [result |-> at_line(line, code), next |-> k]

FromStep ==
    /\ result = Running
    /\ next <= Len(content.eqns)
    /\ Call(content.eqns[next])
    /\ LET s == from_step(result, next, content.eqns[next].line_num,
                          add_equation(blueprint, content.eqns[next]).code)
       IN  result' = s.result /\ next' = s.next
    /\ UNCHANGED content

\* The loop is over: copy sig and pins, return Ok(blueprint).
from_finish(bp, c) == [bp EXCEPT !.sig = c.sig, !.pins = c.pins]

FromReturn ==
    /\ result = Running
    /\ next > Len(content.eqns)
    /\ sig' = from_finish(blueprint, content).sig
    /\ pins' = from_finish(blueprint, content).pins
    /\ result' = OkResult
    /\ UNCHANGED << chip, olmcs, ar, sp, content, next, calls, eqn, lowered, ret >>
    /\ UNCHANGED wvars

NextFrom == FromStep \/ FromReturn

SpecFrom == InitFrom /\ [][NextFrom]_vars

----------------------------------------------------------------------------
(* SpecTerm: eqn_to_term applied to one equation.                          *)

InitTerm ==
    /\ \E c \in Chips :
          /\ Fresh(c) /\ content = NoContent(c)
          /\ \E e \in TermEqns(c, LineBase + 1) : eqn = << e >>
    /\ WriterIdle
    /\ next = 0
    /\ result = Running

Lower ==
    /\ eqn # << >>
    /\ lowered = << >>
    /\ lowered' = << eqn_to_term(chip, eqn[1]) >>
    /\ UNCHANGED << chip, sig, pins, olmcs, ar, sp, content, next, result,
                    calls, eqn, ret >>
    /\ UNCHANGED wvars

NextTerm == Lower

SpecTerm == InitTerm /\ [][NextTerm]_vars

----------------------------------------------------------------------------
(* SpecOlmc: one add_equation call on a Blueprint whose last OLMC, ar and  *)
(* sp hold any values their public fields admit.                           *)

\* The term an earlier line would have left in a facet.
EarlierTerm == Term(LineBase, << << Lit(3, FALSE) >> >>)

OptTerm == {<< >>, << EarlierTerm >>}

PinModes == {"Combinatorial", "Tristate", "Registered"}

\* Every value of the OLMC struct over EarlierTerm, feedback clear.
OlmcStates ==
    [active : {"Low", "High"},
     output : {<< >>} \cup {<< [mode |-> m, term |-> EarlierTerm] >> : m \in PinModes},
     tri_con : OptTerm, clock : OptTerm, arst : OptTerm, aprst : OptTerm,
     feedback : {FALSE}]

LastOlmc(c) == pin_to_olmc(c, LastOlmcPin(c))[1]

InitOlmc ==
    /\ \E c \in Chips, o \in OlmcStates :
          /\ chip = c
          /\ sig = new(c).sig
          /\ pins = new(c).pins
          /\ olmcs = [new(c).olmcs EXCEPT ![LastOlmc(c)] = o]
          /\ content = NoContent(c)
    /\ WriterIdle
    /\ ar \in OptTerm
    /\ sp \in OptTerm
    /\ calls = 0
    /\ eqn = << >>
    /\ lowered = << >>
    /\ ret = << >>
    /\ next = 0
    /\ result = Running

CallOnce ==
    /\ calls = 0
    /\ \E e \in CallEqns(chip, LineBase + 1) : Call(e)
    /\ UNCHANGED << content, next, result >>

NextOlmc == CallOnce

SpecOlmc == InitOlmc /\ [][NextOlmc]_vars

----------------------------------------------------------------------------
(* The report generator (writer.rs).  Text is a sequence of one-character  *)
(* strings.  A byte slice is kept as its length, the set of indices that   *)
(* hold the byte `at`, and the byte `rest` held everywhere else.           *)

GAL16V8 == 1
GAL20V8 == 2
GAL22V10 == 3
GAL20RA10 == 4

GalTypes == {GAL16V8, GAL20V8, GAL22V10, GAL20RA10}

i32_to_chip(gal_type) ==
    CASE gal_type = GAL16V8   -> "GAL16V8"
      [] gal_type = GAL20V8   -> "GAL20V8"
      [] gal_type = GAL22V10  -> "GAL22V10"
      [] gal_type = GAL20RA10 -> "GAL20RA10"

ROW_LEN_ADR16 == 32
ROW_LEN_ADR20 == 40
ROW_LEN_ADR22V10 == 44
ROW_LEN_ADR20RA10 == 40

ROW_COUNT_16V8 == 64
ROW_COUNT_20V8 == 64
ROW_COUNT_22V10 == 132
ROW_COUNT_20RA10 == 80

row_len(gal_type) ==
    CASE gal_type = GAL16V8   -> ROW_LEN_ADR16
      [] gal_type = GAL20V8   -> ROW_LEN_ADR20
      [] gal_type = GAL22V10  -> ROW_LEN_ADR22V10
      [] gal_type = GAL20RA10 -> ROW_LEN_ADR20RA10

row_count(gal_type) ==
    CASE gal_type = GAL16V8   -> ROW_COUNT_16V8
      [] gal_type = GAL20V8   -> ROW_COUNT_20V8
      [] gal_type = GAL22V10  -> ROW_COUNT_22V10
      [] gal_type = GAL20RA10 -> ROW_COUNT_20RA10

fuse_size(gal_type) == row_len(gal_type) * row_count(gal_type)

Slice(len, hot, at, rest) == [len |-> len, hot |-> hot, at |-> at, rest |-> rest]

\* data[i] for i < data.len.
byte(data, i) == IF i \in data.hot THEN data.at ELSE data.rest

DigitChars == << "0", "1", "2", "3", "4", "5", "6", "7", "8", "9" >>

\* format!("{}", n) of an unsigned number.
RECURSIVE display(_)
display(n) ==
    IF n < 10
    THEN << DigitChars[n + 1] >>
    ELSE Append(display(n \div 10), DigitChars[(n % 10) + 1])

RECURSIVE make_spaces(_)
make_spaces(n) == IF n = 0 THEN << >> ELSE << " " >> \o make_spaces(n - 1)

\* format!("{:>w}", ..): padded on the left to width w, never cut.
right_aligned(w, text) ==
    make_spaces(IF Len(text) < w THEN w - Len(text) ELSE 0) \o text

\* The character of a fuse byte that is 1 only.
fuse_char_one(b) == IF b = 1 THEN "-" ELSE "x"

fuse_char(b) == IF b # 0 THEN "-" ELSE "x"

\* The loop of make_row from column col on; out is the text so far, the
\* indices of data read so far, and whether an index was out of bounds.
RECURSIVE row_cols(_, _, _, _, _)
row_cols(num_of_col, row, data, col, out) ==
    IF col >= num_of_col
    THEN out
    ELSE LET idx == row * num_of_col + col
             gap == IF col % 4 = 0 THEN << " " >> ELSE << >>
         IN  IF idx >= data.len
             THEN [out EXCEPT !.text = @ \o gap, !.reads = @ \cup {idx},
                              !.panic = TRUE]
             ELSE row_cols(num_of_col, row, data, col + 1,
                           [out EXCEPT !.text = @ \o gap \o << fuse_char(byte(data, idx)) >>,
                                       !.reads = @ \cup {idx}])

make_row(buf, num_of_col, row, data) ==
    row_cols(num_of_col, row, data, 0,
             [text |-> buf \o << "\n" >> \o right_aligned(3, display(row)) \o << " " >>,
              reads |-> {}, panic |-> FALSE])

----------------------------------------------------------------------------
(* SpecRow: make_row called on one row of a chip's fuse array.             *)

SubsetsUpTo(S, n) == {T \in SUBSET S : Cardinality(T) <= n}

\* Rows at which the printed row number changes width, and the last row.
RowSamples(gal_type) ==
    {0, 1, 9, 10, 99, 100, row_count(gal_type) - 1} \cap (0 .. row_count(gal_type) - 1)

\* Indices at the edges of row `row`, of its first group of four columns and
\* of the rows next to it.
EdgeIndices(gal_type, row) ==
    LET w == row_len(gal_type) IN
    {row * w - 1, row * w, row * w + 3, row * w + 4, row * w + w - 1, row * w + w}
    \cap (0 .. fuse_size(gal_type) - 1)

\* Pairs of the byte at the hot indices and the byte elsewhere.
BytePairs == {<< 1, 0 >>, << 255, 0 >>, << 0, 1 >>}

FuseSlices(gal_type, hots) ==
    {Slice(fuse_size(gal_type), hot, b[1], b[2]) :
        hot \in SubsetsUpTo(hots, MaxHot), b \in BytePairs}

BlueprintIdle ==
    /\ Fresh("GAL16V8") /\ content = NoContent("GAL16V8")
    /\ eqn = << >>
    /\ next = 0
    /\ result = Running

InitRow ==
    /\ BlueprintIdle
    /\ fuse_call = NoCall /\ pin_call = NoCall
    /\ \E t \in GalTypes : \E r \in RowSamples(t) :
          \E d \in FuseSlices(t, EdgeIndices(t, r)) :
            row_call = [pc |-> "call", gal_type |-> t, num_of_col |-> row_len(t),
                        row |-> r, data |-> d, text |-> << >>, reads |-> {},
                        panic |-> FALSE]

MakeRow ==
    /\ row_call.pc = "call"
    /\ LET out == make_row(<< >>, row_call.num_of_col, row_call.row, row_call.data)
       IN  row_call' = [row_call EXCEPT !.pc = "done", !.text = out.text,
                                        !.reads = out.reads, !.panic = out.panic]
    /\ UNCHANGED << bvars, fuse_call, pin_call >>

NextRow == MakeRow

SpecRow == InitRow /\ [][NextRow]_vars

----------------------------------------------------------------------------
(* SpecFuse: make_fuse on the slices that write_files_c builds.  The       *)
(* listing is kept as the sequence of the pieces pushed onto buf.          *)

AC1_SIZE == 8
S1_SIZE == 10

xor_size(gal_type) ==
    CASE gal_type = GAL16V8   -> 8
      [] gal_type = GAL20V8   -> 8
      [] gal_type = GAL22V10  -> 10
      [] gal_type = GAL20RA10 -> 10

names_size(gal_type) == IF gal_type = GAL16V8 THEN 20 ELSE 24

OLMC_SIZE_22V10 == << 9, 11, 13, 15, 17, 17, 15, 13, 11, 9, 1, 1 >>

\* get_size with eight rows for every OLMC of every chip.
get_size_flat(gal_type, olmc) == 8

get_size(gal_type, olmc) ==
    CASE gal_type = GAL16V8   -> 8
      [] gal_type = GAL20V8   -> 8
      [] gal_type = GAL22V10  -> OLMC_SIZE_22V10[olmc + 1]
      [] gal_type = GAL20RA10 -> 8

\* The pin of the first OLMC block and the number of blocks.
fuse_pin(gal_type) ==
    CASE gal_type = GAL16V8   -> 19
      [] gal_type = GAL20V8   -> 22
      [] gal_type = GAL22V10  -> 23
      [] gal_type = GAL20RA10 -> 23

fuse_olmcs(gal_type) ==
    CASE gal_type = GAL16V8   -> 8
      [] gal_type = GAL20V8   -> 8
      [] gal_type = GAL22V10  -> 10
      [] gal_type = GAL20RA10 -> 10

\* The mode-bit base counted from the pin above the highest output pin.
bits_base_above(gal_type) ==
    CASE gal_type = GAL16V8   -> 20
      [] gal_type = GAL20V8   -> 23
      [] gal_type = GAL22V10  -> 24
      [] gal_type = GAL20RA10 -> 24

\* The base from which the XOR/AC1 or S0/S1 index of a pin is counted.
bits_base(gal_type) ==
    CASE gal_type = GAL16V8   -> 19
      [] gal_type = GAL20V8   -> 22
      [] gal_type = GAL22V10  -> 23
      [] gal_type = GAL20RA10 -> 23

\* One piece of the listing.  kind is "AR", "SP", "Pin", "Row" or "End";
\* a Row carries its index and make_row's text, a Pin its number, the
\* index of its name, the padding after it and the two mode bits (the
\* second is -1 where none is printed).
Piece(kind, pin, row, text, name, pad, b0, b1) ==
    [kind |-> kind, pin |-> pin, row |-> row, text |-> text,
     name |-> name, pad |-> pad, b0 |-> b0, b1 |-> b1]

Mark(kind) == Piece(kind, 0, 0, << >>, 0, 0, 0, 0)

RowPiece(f, row) ==
    Piece("Row", 0, row, make_row(<< >>, row_len(f.gal_type), row, f.gal_fuse).text,
          0, 0, 0, 0)

\* The indices of gal_fuse that make_row reads for a row.
RowReads(f, row) == make_row(<< >>, row_len(f.gal_type), row, f.gal_fuse).reads

\* The "Pin nn = name   XOR = x   AC1 = y" line of the block of f.pin.
PinPiece(f) ==
    LET i == bits_base(f.gal_type) - f.pin IN
    Piece("Pin", f.pin, 0, << >>, f.pin - 1, 13 - f.name_len,
          byte(f.gal_xor, i),
          CASE f.gal_type \in {GAL16V8, GAL20V8} -> byte(f.gal_ac1, i)
            [] f.gal_type = GAL22V10            -> byte(f.gal_s1, i)
            [] f.gal_type = GAL20RA10           -> -1)

NameLens == {2, 13}

EmptyUse == [fuse |-> {}, xor |-> {}, ac1 |-> {}, s1 |-> {}, size |-> {}, names |-> {}]

InitFuse ==
    /\ BlueprintIdle
    /\ row_call = NoCall /\ pin_call = NoCall
    /\ \E t \in GalTypes, l \in NameLens :
          \E fh \in SubsetsUpTo({0, fuse_size(t) - 1}, MaxHot),
             xh \in SubsetsUpTo({0, xor_size(t) - 1}, MaxHot) :
            fuse_call = [pc |-> "olmc", gal_type |-> t, name_len |-> l,
                         gal_fuse |-> Slice(fuse_size(t), fh, 1, 0),
                         gal_xor |-> Slice(xor_size(t), xh, 1, 0),
                         gal_ac1 |-> Slice(AC1_SIZE, {AC1_SIZE - 1}, 1, 0),
                         gal_s1 |-> Slice(S1_SIZE, {0}, 1, 0),
                         pin |-> fuse_pin(t), row |-> 0, olmc |-> 0,
                         n |-> 0, num_rows |-> 0,
                         buf |-> << >>, used |-> EmptyUse]

\* The head of one iteration of the OLMC loop: the AR row on GAL22V10
\* before the first block, get_size, and the Pin line.
FuseBlockHead ==
    /\ fuse_call.pc = "olmc"
    /\ fuse_call.olmc < fuse_olmcs(fuse_call.gal_type)
    /\ LET f == fuse_call
           with_ar == f.gal_type = GAL22V10 /\ f.olmc = 0
           i == bits_base(f.gal_type) - f.pin
       IN  fuse_call' =
             [f EXCEPT
                !.pc = "rows",
                !.n = 0,
                !.num_rows = get_size(f.gal_type, f.olmc),
                !.row = IF with_ar THEN f.row + 1 ELSE f.row,
                !.buf = (IF with_ar
                         THEN @ \o << Mark("AR"), RowPiece(f, f.row) >>
                         ELSE @) \o << PinPiece(f) >>,
                !.used = [@ EXCEPT
                            !.fuse = IF with_ar THEN @ \cup RowReads(f, f.row) ELSE @,
                            !.size = IF f.gal_type = GAL22V10 THEN @ \cup {f.olmc} ELSE @,
                            !.names = @ \cup {f.pin - 1},
                            !.xor = @ \cup {i},
                            !.ac1 = IF f.gal_type \in {GAL16V8, GAL20V8}
                                    THEN @ \cup {i} ELSE @,
                            !.s1 = IF f.gal_type = GAL22V10 THEN @ \cup {i} ELSE @]]
    /\ UNCHANGED << bvars, row_call, pin_call >>

\* One iteration of the loop over the rows of a block.
FuseRow ==
    /\ fuse_call.pc = "rows"
    /\ fuse_call.n < fuse_call.num_rows
    /\ LET f == fuse_call IN
       fuse_call' = [f EXCEPT !.buf = Append(@, RowPiece(f, f.row)),
                              !.used = [@ EXCEPT !.fuse = @ \cup RowReads(f, f.row)],
                              !.row = @ + 1,
                              !.n = @ + 1]
    /\ UNCHANGED << bvars, row_call, pin_call >>

\* The tail of one iteration of the OLMC loop: the SP row on GAL22V10
\* after block 9, and the step to the next lower pin.
FuseBlockTail ==
    /\ fuse_call.pc = "rows"
    /\ fuse_call.n >= fuse_call.num_rows
    /\ LET f == fuse_call
           with_sp == f.gal_type = GAL22V10 /\ f.olmc = 9
       IN  fuse_call' =
             [f EXCEPT
                !.pc = "olmc",
                !.buf = IF with_sp
                        THEN @ \o << Mark("SP"), RowPiece(f, f.row) >>
                        ELSE @,
                !.used = [@ EXCEPT
                            !.fuse = IF with_sp THEN @ \cup RowReads(f, f.row) ELSE @],
                !.pin = @ - 1,
                !.olmc = @ + 1]
    /\ UNCHANGED << bvars, row_call, pin_call >>

\* The loop is over: the closing blank line, and the return.
FuseReturn ==
    /\ fuse_call.pc = "olmc"
    /\ fuse_call.olmc >= fuse_olmcs(fuse_call.gal_type)
    /\ fuse_call' = [fuse_call EXCEPT !.pc = "done", !.buf = Append(@, Mark("End"))]
    /\ UNCHANGED << bvars, row_call, pin_call >>

NextFuse == FuseBlockHead \/ FuseRow \/ FuseBlockTail \/ FuseReturn

SpecFuse == InitFuse /\ [][NextFuse]_vars

----------------------------------------------------------------------------
(* SpecPin: make_pin on the slices that write_files_c builds.  The table   *)
(* is kept as one entry per loop iteration: the pin number and the Pin     *)
(* Type cells pushed for it.                                               *)

MODE1 == 1
MODE2 == 2
MODE3 == 3

Modes == {MODE1, MODE2, MODE3}

INPUT == 2

DUMMY_OLMC12 == 25

PIN_TYPES_SIZE == 12

is_olmc(gal_type, n) ==
    CASE gal_type = GAL16V8   -> n >= 12 /\ n <= 19
      [] gal_type = GAL20V8   -> n >= 15 /\ n <= 22
      [] gal_type = GAL22V10  -> n >= 14 /\ n <= DUMMY_OLMC12
      [] gal_type = GAL20RA10 -> n >= 14 /\ n <= 23

\* writer.rs's own pin_to_olmc: plain subtraction, no range check.
pin_minus_base(gal_type, pin) ==
    pin - (CASE gal_type = GAL16V8   -> 12
             [] gal_type = GAL20V8   -> 15
             [] gal_type = GAL22V10  -> 14
             [] gal_type = GAL20RA10 -> 14)

\* The cell of an OLMC pin with every non-zero code printed as Output.
type_cell_no_input(code) ==
    IF code # 0 THEN "| Output\n" ELSE "| NC\n"

\* The cell of an OLMC pin, by its pin-type code.
type_cell(code) ==
    IF code # INPUT
    THEN IF code # 0 THEN "| Output\n" ELSE "| NC\n"
    ELSE "| Input\n"

\* The cells that one loop iteration of make_pin pushes for pin n.
pin_cells(gal_type, num_of_pins, mode, olmc_pin_types, n) ==
    LET gnd == IF n = num_of_pins \div 2 THEN << "| GND\n" >> ELSE << >>
        vcc == IF n = num_of_pins THEN << "| VCC\n\n" >> ELSE << >>
        clock == IF gal_type \in {GAL16V8, GAL20V8} /\ mode = MODE3 /\ n = 1
                 THEN << "| Clock\n" >> ELSE << >>
        oe16 == IF gal_type \in {GAL16V8, GAL20V8} /\ mode = MODE3
                   /\ gal_type = GAL16V8 /\ n = 11
                THEN << "| /OE\n" >> ELSE << >>
        oe20 == IF gal_type \in {GAL16V8, GAL20V8} /\ mode = MODE3
                   /\ gal_type = GAL20V8 /\ n = 13
                THEN << "| /OE\n" >> ELSE << >>
        clkin == IF gal_type = GAL22V10 /\ n = 1
                 THEN << "| Clock/Input\n" >> ELSE << >>
        flagged == gnd \o vcc \o clock \o oe16 \o oe20 \o clkin
        flag == flagged # << >>
    IN  flagged \o
        (IF is_olmc(gal_type, n) /\ n < 24
         THEN << type_cell(byte(olmc_pin_types, pin_minus_base(gal_type, n))) >>
         ELSE IF ~ flag THEN << "| Input\n" >> ELSE << >>)

\* Pin-type codes at the hot OLMCs and elsewhere.
CodePairs == {<< 0, 1 >>, << 2, 0 >>, << 1, 2 >>, << 3, 2 >>}

PinTypeSlices ==
    {Slice(PIN_TYPES_SIZE, hot, b[1], b[2]) :
        hot \in SubsetsUpTo({0, 7, 9, 11}, MaxHot), b \in CodePairs}

InitPin ==
    /\ BlueprintIdle
    /\ row_call = NoCall /\ fuse_call = NoCall
    /\ \E t \in GalTypes, m \in Modes, ty \in PinTypeSlices :
          pin_call = [pc |-> "loop", gal_type |-> t, mode |-> m,
                      num_of_pins |-> names_size(t), olmc_pin_types |-> ty,
                      n |-> 1, buf |-> << >>, used |-> {}]

\* One iteration of the loop over the pins.
PinRow ==
    /\ pin_call.pc = "loop"
    /\ pin_call.n < pin_call.num_of_pins + 1
    /\ LET q == pin_call IN
       pin_call' =
         [q EXCEPT
            !.buf = Append(@, [pin |-> q.n, name |-> q.n - 1,
                               cells |-> pin_cells(q.gal_type, q.num_of_pins, q.mode,
                                                   q.olmc_pin_types, q.n)]),
            !.used = IF is_olmc(q.gal_type, q.n) /\ q.n < 24
                     THEN @ \cup {pin_minus_base(q.gal_type, q.n)} ELSE @,
            !.n = @ + 1]
    /\ UNCHANGED << bvars, row_call, fuse_call >>

PinReturn ==
    /\ pin_call.pc = "loop"
    /\ pin_call.n >= pin_call.num_of_pins + 1
    /\ pin_call' = [pin_call EXCEPT !.pc = "done"]
    /\ UNCHANGED << bvars, row_call, fuse_call >>

NextPin == PinRow \/ PinReturn

SpecPin == InitPin /\ [][NextPin]_vars

----------------------------------------------------------------------------
(* SpecReport: write_files_c building the slices and write_files calling   *)
(* make_fuse and then make_pin on them, each if its config flag is set.    *)

\* The function is not called: its config flag is 0.
Skipped == [pc |-> "skipped"]

GenFlags == {0, 1}

InitReport ==
    /\ BlueprintIdle
    /\ row_call = NoCall
    /\ \E t \in GalTypes, m \in Modes, gen_fuse \in GenFlags, gen_pin \in GenFlags :
          \E fh \in SubsetsUpTo({0, fuse_size(t) - 1}, MaxHot) :
            /\ fuse_call =
                 IF gen_fuse # 0
                 THEN [pc |-> "olmc", gal_type |-> t, name_len |-> 2,
                       gal_fuse |-> Slice(fuse_size(t), fh, 1, 0),
                       gal_xor |-> Slice(xor_size(t), {0}, 1, 0),
                       gal_ac1 |-> Slice(AC1_SIZE, {AC1_SIZE - 1}, 1, 0),
                       gal_s1 |-> Slice(S1_SIZE, {0}, 1, 0),
                       pin |-> fuse_pin(t), row |-> 0, olmc |-> 0,
                       n |-> 0, num_rows |-> 0,
                       buf |-> << >>, used |-> EmptyUse]
                 ELSE Skipped
            /\ pin_call =
                 IF gen_pin # 0
                 THEN [pc |-> "loop", gal_type |-> t, mode |-> m,
                       num_of_pins |-> names_size(t),
                       olmc_pin_types |-> Slice(PIN_TYPES_SIZE, {0}, INPUT, 1),
                       n |-> 1, buf |-> << >>, used |-> {}]
                 ELSE Skipped

\* make_fuse has returned or is not called.
FusePassed == fuse_call.pc \in {"done", "skipped"}

ReportPinRow == FusePassed /\ PinRow

ReportPinReturn == FusePassed /\ PinReturn

NextReport ==
    \/ FuseBlockHead \/ FuseRow \/ FuseBlockTail \/ FuseReturn
    \/ ReportPinRow \/ ReportPinReturn

SpecReport == InitReport /\ [][NextReport]_vars

----------------------------------------------------------------------------
(* Properties.                                                             *)

\* from has returned Ok(blueprint).
Returned == result.tag = "Ok"

OlmcIndices == DOMAIN olmcs

HasModifier(o) ==
    o.tri_con # << >> \/ o.clock # << >> \/ o.arst # << >> \/ o.aprst # << >>

HasRegControl(o) == o.clock # << >> \/ o.arst # << >> \/ o.aprst # << >>

IsRegistered(o) == o.output # << >> /\ o.output[1].mode = "Registered"

\* C1: in every Blueprint that from returns Ok, an OLMC with a non-empty
\* tri_con, clock, arst or aprst has a non-empty output.
C1_ModifierHasOutput ==
    Returned =>
        \A i \in OlmcIndices : HasModifier(olmcs[i]) => olmcs[i].output # << >>

\* An Ok Blueprint with a clocked OLMC.
C1_Witness ==
    Returned /\ \E i \in OlmcIndices : olmcs[i].clock # << >>

\* C2: after any sequence of add_equation calls, failed ones included, an
\* OLMC whose clock, arst or aprst is non-empty has output mode Registered.
C2_ControlsNeedRegistered ==
    \A i \in OlmcIndices : HasRegControl(olmcs[i]) => IsRegistered(olmcs[i])

\* An OLMC with an asynchronous reset, after a call that failed.
C2_Witness ==
    /\ \E i \in OlmcIndices : olmcs[i].arst # << >>
    /\ ret # << >> /\ ret[1] # "Ok"

\* C3: on GAL16V8 and GAL20V8, no Blueprint that from returns Ok has an
\* OLMC with output mode Registered and a non-empty tri_con.
C3_NoRegisteredTristate ==
    (Returned /\ chip \in {"GAL16V8", "GAL20V8"}) =>
        \A i \in OlmcIndices :
            ~ (IsRegistered(olmcs[i]) /\ olmcs[i].tri_con # << >>)

\* An Ok Blueprint for one of the two chips with an output enable stored.
C3_Witness ==
    /\ Returned /\ chip \in {"GAL16V8", "GAL20V8"}
    /\ \E i \in OlmcIndices : olmcs[i].tri_con # << >>

\* C4: ar and sp are non-empty only when chip = GAL22V10.
C4_ArSpOnly22V10 ==
    /\ ar # << >> => chip = "GAL22V10"
    /\ sp # << >> => chip = "GAL22V10"

\* Some equation of content.eqns has an RHS literal whose pin maps to OLMC i.
Referenced(i) ==
    \E k \in 1 .. Len(content.eqns) :
        \E j \in 1 .. Len(content.eqns[k].rhs) :
            pin_to_olmc(content.chip, content.eqns[k].rhs[j].pin) = << i >>

\* C5: in every Blueprint that from returns Ok, olmcs[i].feedback is true
\* exactly when some equation's RHS has a literal whose pin maps to OLMC i.
C5_FeedbackIffReferenced ==
    Returned => \A i \in OlmcIndices : olmcs[i].feedback <=> Referenced(i)

\* The pins the code takes for VCC and GND.
PowerPins == {num_pins(chip), num_pins(chip) \div 2}

IsLonePower(e) == Len(e.rhs) = 1 /\ e.rhs[1].pin \in PowerPins

\* An Ok Blueprint from equations one of which is a lone power literal,
\* with an OLMC that feeds back and one that does not.
C5_Witness ==
    /\ Returned
    /\ \E k \in 1 .. Len(content.eqns) : IsLonePower(content.eqns[k])
    /\ \E i \in OlmcIndices : olmcs[i].feedback
    /\ \E i \in OlmcIndices : ~ olmcs[i].feedback

Modifiers == {"E", "CLK", "ARST", "APRST"}

PrematureCode(suffix) ==
    CASE suffix = "E"     -> "PrematureENABLE"
      [] suffix = "CLK"   -> "PrematureCLK"
      [] suffix = "ARST"  -> "PrematureARST"
      [] suffix = "APRST" -> "PrematureAPRST"

\* Equation e has LHS Pin and its pin maps to an OLMC.
Addressed(e) ==
    IF e.lhs.kind = "Pin" THEN pin_to_olmc(chip, e.lhs.pin.pin) ELSE << >>

\* Equation k of content.eqns is the first that addresses its OLMC, and it
\* is a modifier equation with a non-negated LHS.
ModifierFirst(k) ==
    LET e == content.eqns[k] IN
    /\ Addressed(e) # << >>
    /\ e.lhs.suffix \in Modifiers
    /\ ~ e.lhs.pin.neg
    /\ \A j \in 1 .. k - 1 : Addressed(content.eqns[j]) # Addressed(e)

\* The RHS of e is one negated literal naming VCC or GND.
LoneNegPower(e) == IsLonePower(e) /\ e.rhs[1].neg

\* from has returned an error for equation k with the Premature code of
\* that equation's suffix.
FailsPrematureAt(k) ==
    /\ result = at_line(content.eqns[k].line_num,
                        PrematureCode(content.eqns[k].lhs.suffix))
    /\ next = k

\* C6 as claimed: whenever the first equation addressing an OLMC is a
\* non-negated E, CLK, ARST or APRST equation and from reaches it, from
\* fails at that equation with the matching Premature code, whatever the
\* equation's RHS and whatever follows it.
C6_PrematureAlways ==
    result # Running =>
        \A k \in 1 .. Len(content.eqns) :
            (ModifierFirst(k) /\ next >= k) => FailsPrematureAt(k)

\* C6: the same, unless the RHS of that equation is a lone negated power
\* literal (eqn_to_term then fails first, with InvertedPower).
C6_PrematureWhenReached ==
    result # Running =>
        \A k \in 1 .. Len(content.eqns) :
            (ModifierFirst(k) /\ next >= k /\ ~ LoneNegPower(content.eqns[k]))
                => FailsPrematureAt(k)

\* from failed with PrematureCLK at the first equation although the second
\* one is a base equation for the same pin.
C6_Witness ==
    /\ Len(content.eqns) = 2
    /\ ModifierFirst(1)
    /\ result = at_line(content.eqns[1].line_num, "PrematureCLK")
    /\ Addressed(content.eqns[2]) = Addressed(content.eqns[1])
    /\ content.eqns[2].lhs.suffix = "R"
    /\ ~ LoneNegPower(content.eqns[2])

\* The term or error that lowering the equation of SpecTerm gave.
TheLiteral == eqn[1].rhs[1]

SingleLiteral == lowered # << >> /\ Len(eqn[1].rhs) = 1 /\ ~ TheLiteral.neg

LoweredTo(ors) ==
    lowered[1] = [code |-> "Ok", term |-> << Term(eqn[1].line_num, ors) >>]

Stored ==
    << [i \in OlmcIndices |->
           << olmcs[i].output, olmcs[i].tri_con, olmcs[i].clock,
              olmcs[i].arst, olmcs[i].aprst >>],
       ar, sp >>

\* Some RHS literal of e is a negated VCC or GND.
NegPowerIn(e) ==
    \E j \in 1 .. Len(e.rhs) : e.rhs[j].neg /\ e.rhs[j].pin \in PowerPins

\* The step is an add_equation call that fails with InvertedPower in
\* eqn_to_term and stores nothing.
RejectsInvertedPower ==
    /\ lowered' = << [code |-> "InvertedPower", term |-> << >>] >>
    /\ ret' = << "InvertedPower" >>
    /\ Stored' = Stored

\* C8 as claimed: an equation with a negated VCC or GND literal anywhere in
\* its RHS fails with InvertedPower and stores no term.
C8_NegPowerAnywhere ==
    [][(calls' = calls + 1 /\ NegPowerIn(eqn'[1])) => RejectsInvertedPower]_vars

\* C8: an equation whose RHS is a single negated VCC or GND literal fails
\* with InvertedPower and stores no term.
C8_LoneNegPower ==
    [][(calls' = calls + 1 /\ LoneNegPower(eqn'[1])) => RejectsInvertedPower]_vars

\* A call with RHS /GND failed with InvertedPower on a Blueprint that
\* already stores an output.
C8_Witness ==
    /\ eqn # << >> /\ LoneNegPower(eqn[1])
    /\ eqn[1].rhs[1].pin = num_pins(chip) \div 2
    /\ ret = << "InvertedPower" >>
    /\ \E i \in OlmcIndices : olmcs[i].output # << >>

\* The step is an add_equation call with a base equation for OLMC i, whose
\* output is already set.
SecondBase(i) ==
    /\ calls' = calls + 1
    /\ Addressed(eqn'[1]) = << i >>
    /\ eqn'[1].lhs.suffix \in BaseSuffixes
    /\ olmcs[i].output # << >>

KeepsBase(i) ==
    /\ olmcs'[i].output = olmcs[i].output
    /\ olmcs'[i].active = olmcs[i].active

\* C9 as claimed: a second base equation for an OLMC always fails with
\* RepeatedOutput and the OLMC keeps its mode, term and active level.
C9_RepeatedOutputAlways ==
    [][\A i \in OlmcIndices :
          SecondBase(i) => (ret' = << "RepeatedOutput" >> /\ KeepsBase(i))]_vars

\* C9: a second base equation for an OLMC fails, with RepeatedOutput unless
\* its RHS is a lone negated power literal (then with InvertedPower), and
\* the OLMC keeps its mode, term and active level.
C9_SecondBaseRejected ==
    [][\A i \in OlmcIndices :
          SecondBase(i) =>
              /\ ret' = << IF LoneNegPower(eqn'[1]) THEN "InvertedPower"
                                                    ELSE "RepeatedOutput" >>
              /\ KeepsBase(i)]_vars

\* A negated .T equation was rejected as RepeatedOutput on an OLMC that
\* holds an active-high Registered output.
C9_Witness ==
    /\ ret = << "RepeatedOutput" >>
    /\ eqn[1].lhs.suffix = "T" /\ eqn[1].lhs.pin.neg
    /\ \E i \in OlmcIndices :
          /\ Addressed(eqn[1]) = << i >>
          /\ IsRegistered(olmcs[i])
          /\ olmcs[i].active = "High"

\* add_equation folded over eqns from position k on: the position and code
\* of the first failure (k = 0 when there is none) and the blueprint then.
RECURSIVE FirstFailure(_, _, _)
FirstFailure(bp, eqns, k) ==
    IF k > Len(eqns)
    THEN [k |-> 0, code |-> "Ok", bp |-> bp]
    ELSE LET r == add_equation(bp, eqns[k]) IN
         IF r.code # "Ok"
         THEN [k |-> k, code |-> r.code, bp |-> r.bp]
         ELSE FirstFailure(r.bp, eqns, k + 1)

\* C10: from calls add_equation on content.eqns in source order, one call
\* per equation; it returns the error of the first failing equation k with
\* that equation's line_num, having made no call after the k-th; with no
\* failure it returns Ok with sig and pins copied from content.
C10_FirstErrorWins ==
    /\ calls > 0 => (calls <= Len(content.eqns) /\ eqn = << content.eqns[calls] >>)
    /\ result # Running =>
          LET f == FirstFailure(new(content.chip), content.eqns, 1) IN
          IF f.k = 0
          THEN /\ result = OkResult
               /\ calls = Len(content.eqns)
               /\ blueprint = [f.bp EXCEPT !.sig = content.sig,
                                          !.pins = content.pins]
          ELSE /\ result = at_line(content.eqns[f.k].line_num, f.code)
               /\ calls = f.k

\* from returned the error of the first of two equations.
C10_Witness ==
    /\ Len(content.eqns) = 2
    /\ result.tag = "Err"
    /\ result.line = content.eqns[1].line_num
    /\ calls = 1

\* The facet of OLMC record o that an equation with the given suffix sets.
FacetOf(o, suffix) ==
    CASE suffix \in BaseSuffixes -> o.output
      [] suffix = "E"            -> o.tri_con
      [] suffix = "CLK"          -> o.clock
      [] suffix = "ARST"         -> o.arst
      [] suffix = "APRST"        -> o.aprst

RepeatedCode(e) ==
    CASE e.lhs.kind \in {"Ar", "Sp"}     -> "RepeatedARSP"
      [] e.lhs.suffix \in BaseSuffixes   -> "RepeatedOutput"
      [] e.lhs.suffix = "E"              -> "RepeatedTristate"
      [] e.lhs.suffix = "CLK"            -> "RepeatedCLK"
      [] e.lhs.suffix = "ARST"           -> "RepeatedARST"
      [] e.lhs.suffix = "APRST"          -> "RepeatedAPRST"

\* The step is an add_equation call.
IsCall == calls' = calls + 1

\* The facet that equation e is for is already non-empty.
FacetTaken(e) ==
    CASE e.lhs.kind = "Ar" -> ar # << >>
      [] e.lhs.kind = "Sp" -> sp # << >>
      [] OTHER ->
           /\ Addressed(e) # << >>
           /\ FacetOf(olmcs[Addressed(e)[1]], e.lhs.suffix) # << >>

\* No non-empty facet changes in the step.
FacetsPersist ==
    /\ \A i \in OlmcIndices : \A s \in {"None", "E", "CLK", "ARST", "APRST"} :
          FacetOf(olmcs[i], s) # << >> => FacetOf(olmcs'[i], s) = FacetOf(olmcs[i], s)
    /\ ar # << >> => ar' = ar
    /\ sp # << >> => sp' = sp

\* A first AR equation is not rejected because SP is set, nor a first SP
\* equation because AR is set.
ArSpIndependent ==
    /\ (IsCall /\ eqn'[1].lhs.kind = "Sp" /\ sp = << >> /\ ar # << >>)
          => (ret' # << "RepeatedARSP" >>
              /\ (~ LoneNegPower(eqn'[1]) => (ret' = << "Ok" >> /\ sp' = lowered'[1].term)))
    /\ (IsCall /\ eqn'[1].lhs.kind = "Ar" /\ ar = << >> /\ sp # << >>)
          => (ret' # << "RepeatedARSP" >>
              /\ (~ LoneNegPower(eqn'[1]) => (ret' = << "Ok" >> /\ ar' = lowered'[1].term)))

\* The equation is a CLK, ARST, APRST or E equation with a negated LHS.
NegatedControl(e) ==
    e.lhs.kind = "Pin" /\ e.lhs.suffix \in Modifiers /\ e.lhs.pin.neg

\* C11 as claimed: a non-empty facet keeps its value, every later equation
\* for it fails with the matching Repeated code, and ar and sp do not
\* block each other.
C11_RepeatedAlways ==
    [][/\ FacetsPersist
       /\ (IsCall /\ FacetTaken(eqn'[1])) => ret' = << RepeatedCode(eqn'[1]) >>
       /\ ArSpIndependent]_vars

\* C11: a non-empty facet keeps its value; a later equation for it fails,
\* with InvertedPower when its RHS is a lone negated power literal, else
\* with InvertedControl when it is a modifier equation with a negated LHS,
\* else with the matching Repeated code; ar and sp do not block each other.
C11_SingleAssignment ==
    [][/\ FacetsPersist
       /\ (IsCall /\ FacetTaken(eqn'[1])) =>
             ret' = << IF LoneNegPower(eqn'[1]) THEN "InvertedPower"
                       ELSE IF NegatedControl(eqn'[1]) THEN "InvertedControl"
                       ELSE RepeatedCode(eqn'[1]) >>
       /\ ArSpIndependent]_vars

\* A second CLK equation was rejected as RepeatedCLK and the clock still is
\* the term of the earlier line.
C11_Witness ==
    /\ ret = << "RepeatedCLK" >>
    /\ \E i \in OlmcIndices :
          /\ Addressed(eqn[1]) = << i >>
          /\ olmcs[i].clock # << >>
          /\ olmcs[i].clock[1].line_num < eqn[1].line_num

\* Every field of every OLMC except the feedback flag, and ar and sp.
Settings ==
    << [i \in OlmcIndices |-> [olmcs[i] EXCEPT !.feedback = FALSE]], ar, sp >>

\* The step is an add_equation call whose LHS is a pin that maps to no OLMC.
UnmappedCall ==
    IsCall /\ eqn'[1].lhs.kind = "Pin" /\ Addressed(eqn'[1]) = << >>

\* C12 as claimed: an equation whose LHS pin maps to no OLMC fails with
\* NotAnOutput whatever its suffix, and changes no OLMC setting nor ar/sp.
C12_NotAnOutputAlways ==
    [][UnmappedCall => (ret' = << "NotAnOutput" >> /\ Settings' = Settings)]_vars

\* C12: an equation whose LHS pin maps to no OLMC fails, with InvertedPower
\* when its RHS is a lone negated power literal and with NotAnOutput
\* otherwise, whatever its suffix and LHS polarity, and changes no OLMC
\* setting nor ar/sp.
C12_UnmappedPinRejected ==
    [][UnmappedCall =>
         /\ ret' = << IF LoneNegPower(eqn'[1]) THEN "InvertedPower" ELSE "NotAnOutput" >>
         /\ Settings' = Settings]_vars

\* A negated CLK equation on input pin 1 was rejected as NotAnOutput while
\* some OLMC already had an output.
C12_Witness ==
    /\ ret = << "NotAnOutput" >>
    /\ eqn[1].lhs.kind = "Pin" /\ eqn[1].lhs.pin.neg /\ eqn[1].lhs.suffix = "CLK"
    /\ Addressed(eqn[1]) = << >>
    /\ \E i \in OlmcIndices : olmcs[i].output # << >>

\* The step calls a modifier setter: the equation lowers without error and
\* its LHS is an output pin with suffix E, CLK, ARST or APRST.
SetterCalled ==
    /\ IsCall
    /\ lowered'[1].code = "Ok"
    /\ Addressed(eqn'[1]) # << >>
    /\ eqn'[1].lhs.suffix \in Modifiers

\* The result of the first failing check of set_enable, in documented order.
EnableChecks(o, c, neg) ==
    IF neg THEN "InvertedControl"
    ELSE IF o.tri_con # << >> THEN "RepeatedTristate"
    ELSE IF o.output = << >> THEN "PrematureENABLE"
    ELSE IF o.output[1].mode = "Combinatorial" THEN "UnmatchedTristate"
    ELSE IF o.output[1].mode = "Registered" /\ c \in {"GAL16V8", "GAL20V8"}
    THEN "TristateReg"
    ELSE "Ok"

\* The same for set_clock, set_arst and set_aprst.
ControlChecks(o, suffix, neg) ==
    IF neg THEN "InvertedControl"
    ELSE IF o.output = << >> THEN PrematureCode(suffix)
    ELSE IF o.output[1].mode # "Registered" THEN "InvalidControl"
    ELSE IF FacetOf(o, suffix) # << >>
    THEN CASE suffix = "CLK" -> "RepeatedCLK"
           [] suffix = "ARST" -> "RepeatedARST"
           [] suffix = "APRST" -> "RepeatedAPRST"
    ELSE "Ok"

\* C16: whatever the OLMC holds, the chip and the LHS polarity, a modifier
\* setter returns the result of the first failing check in the documented
\* order, and Ok when none fails.
C16_SetterPrecedence ==
    [][SetterCalled =>
         LET e == eqn'[1]
             o == olmcs[Addressed(e)[1]]
         IN  ret' = << IF e.lhs.suffix = "E"
                       THEN EnableChecks(o, chip, e.lhs.pin.neg)
                       ELSE ControlChecks(o, e.lhs.suffix, e.lhs.pin.neg) >>]_vars

\* An E equation met an OLMC with tri_con set and no output, and was
\* rejected as RepeatedTristate.
C16_Witness ==
    /\ ret = << "RepeatedTristate" >>
    /\ Addressed(eqn[1]) # << >>
    /\ olmcs[Addressed(eqn[1])[1]].output = << >>
    /\ olmcs[Addressed(eqn[1])[1]].tri_con = << EarlierTerm >>

\* The step calls a setter (base or modifier) on an OLMC.
AnySetterCalled ==
    /\ IsCall
    /\ lowered'[1].code = "Ok"
    /\ Addressed(eqn'[1]) # << >>

\* C17 as claimed: a setter that returns an error leaves active, output,
\* tri_con, clock, arst and aprst of its OLMC as they were.
C17_FailedSetterStoresNothing ==
    [][(AnySetterCalled /\ ret' # << "Ok" >>) =>
         LET i == Addressed(eqn'[1])[1] IN
         [olmcs'[i] EXCEPT !.feedback = FALSE] = [olmcs[i] EXCEPT !.feedback = FALSE]]_vars

\* eqn_to_term has run on an equation with as many flags as literals, at
\* least one, that is not a lone power literal.
LoweredWalk ==
    /\ lowered # << >>
    /\ Len(eqn[1].rhs) >= 1
    /\ Len(eqn[1].is_or) = Len(eqn[1].rhs)
    /\ ~ IsLonePower(eqn[1])

\* The equation with the flag of its first literal flipped.
FirstFlagFlipped(e) == [e EXCEPT !.is_or[1] = ~ @]

\* C18 as claimed: the Term does not depend on the flag of the first
\* literal, and its first AND-group is not empty.
C18_FirstFlagIgnored ==
    LoweredWalk =>
        /\ lowered[1] = eqn_to_term(chip, FirstFlagFlipped(eqn[1]))
        /\ lowered[1].term[1].pins[1] # << >>

\* The AND-groups of a Term, concatenated in order.
RECURSIVE Flatten(_)
Flatten(groups) ==
    IF groups = << >> THEN << >> ELSE Head(groups) \o Flatten(Tail(groups))

\* The number of literals in the first k AND-groups.
RECURSIVE LitsBefore(_, _)
LitsBefore(groups, k) ==
    IF k = 0 THEN 0 ELSE LitsBefore(groups, k - 1) + Len(groups[k])

\* The positions in the concatenation at which a group closes and the next
\* one opens: j means between literal j and literal j+1 (counted from 1).
Boundaries(groups) == {LitsBefore(groups, k) : k \in 1 .. Len(groups) - 1}

\* eqn_to_term has run on an equation with as many flags as literals that
\* is not a lone power literal.
LoweredAligned ==
    /\ lowered # << >>
    /\ Len(eqn[1].is_or) = Len(eqn[1].rhs)
    /\ ~ IsLonePower(eqn[1])

\* C19: for an equation that is not a lone power literal and has as many
\* flags as literals, eqn_to_term returns Ok with a Term whose AND-groups
\* concatenate to the RHS literal sequence, that has a group boundary right
\* before every literal but the first whose flag is set and before no
\* other, and that carries the equation's line_num.
C19_OrderPreserved ==
    LoweredAligned =>
        /\ lowered[1].code = "Ok"
        /\ Flatten(lowered[1].term[1].pins) = eqn[1].rhs
        /\ \A j \in 1 .. Len(eqn[1].rhs) - 1 :
              (j \in Boundaries(lowered[1].term[1].pins)) <=> eqn[1].is_or[j + 1]
        /\ lowered[1].term[1].line_num = eqn[1].line_num

\* Two distinct literals, the second negated and with its flag set, were
\* lowered into two groups.
C19_Witness ==
    /\ LoweredAligned
    /\ Len(eqn[1].rhs) = 2
    /\ eqn[1].is_or = << FALSE, TRUE >>
    /\ eqn[1].rhs[1] # eqn[1].rhs[2]
    /\ eqn[1].rhs[2].neg
    /\ Len(lowered[1].term[1].pins) = 2

\* OLMC i is named by a literal of the RHS of e.
NamedOnRhs(e, i) ==
    \E j \in 1 .. Len(e.rhs) : pin_to_olmc(chip, e.rhs[j].pin) = << i >>

\* The facet names an equation with the given suffix may set.
Selected(suffix) ==
    CASE suffix \in BaseSuffixes -> {"output", "active"}
      [] suffix = "E"            -> {"tri_con"}
      [] suffix = "CLK"          -> {"clock"}
      [] suffix = "ARST"         -> {"arst"}
      [] suffix = "APRST"        -> {"aprst"}

FacetNames == {"active", "output", "tri_con", "clock", "arst", "aprst"}

\* The facets of OLMC i that the step changes.
Changed(i) == {f \in FacetNames : olmcs'[i][f] # olmcs[i][f]}

\* C20: an add_equation call never changes chip; it changes the feedback
\* flag only of OLMCs named on its RHS; with LHS Pin(p, suffix) it changes
\* besides at most the facet the suffix selects in the OLMC of p, and
\* neither ar nor sp; with LHS Ar it changes besides at most ar, and with
\* LHS Sp at most sp.
C20_AddEquationFrame ==
    [][IsCall =>
         LET e == eqn'[1] IN
         /\ chip' = chip
         /\ \A i \in OlmcIndices :
               olmcs'[i].feedback # olmcs[i].feedback => NamedOnRhs(e, i)
         /\ \A i \in OlmcIndices :
               Changed(i) \subseteq
                   (IF Addressed(e) = << i >> THEN Selected(e.lhs.suffix) ELSE {})
         /\ e.lhs.kind # "Ar" => ar' = ar
         /\ e.lhs.kind # "Sp" => sp' = sp]_vars

\* An ARST equation stored its term in arst of an OLMC that already had a
\* Registered output, a clock and a tri_con, and marked another OLMC as fed
\* back, while ar was set.
C20_Witness ==
    /\ ret = << "Ok" >>
    /\ eqn[1].lhs.suffix = "ARST"
    /\ Addressed(eqn[1]) # << >>
    /\ LET o == olmcs[Addressed(eqn[1])[1]] IN
          /\ o.arst = lowered[1].term
          /\ o.clock = << EarlierTerm >>
          /\ o.tri_con = << EarlierTerm >>
          /\ o.aprst = << >>
          /\ IsRegistered(o)
    /\ \E i \in OlmcIndices : olmcs[i].feedback
    /\ ar = << EarlierTerm >>

\* The width of the row label: newline, the row number in three places, and
\* a space.
LabelLen == 5

\* The place in the text of a row of the character of column c (from 0):
\* after the label, one space per group of four begun, and c characters.
CharAt(c) == LabelLen + (c \div 4 + 1) + c + 1

RowDone == row_call.pc = "done"

\* C13: in the text of a row, the character of column c is '-' iff fuse byte
\* row*row_width + c is non-zero and 'x' iff it is zero; only bytes of
\* [row*row_width, (row+1)*row_width) are read; and after the row label
\* the only spaces are one right before each column c with c mod 4 = 0.
C13_RowRendering ==
    RowDone =>
        LET w == row_call.num_of_col
            k == row_call.row
            text == row_call.text
        IN  /\ ~ row_call.panic
            /\ SubSeq(text, 1, LabelLen)
                  = << "\n" >> \o right_aligned(3, display(k)) \o << " " >>
            /\ Len(text) = CharAt(w - 1)
            /\ \A c \in 0 .. w - 1 :
                  /\ text[CharAt(c)] = "-" <=> byte(row_call.data, k * w + c) # 0
                  /\ text[CharAt(c)] = "x" <=> byte(row_call.data, k * w + c) = 0
                  /\ c % 4 = 0 => text[CharAt(c) - 1] = " "
            /\ Cardinality({j \in LabelLen + 1 .. Len(text) : text[j] = " "})
                  = Cardinality({c \in 0 .. w - 1 : c % 4 = 0})
            /\ row_call.reads \subseteq k * w .. (k + 1) * w - 1

\* Row 131 of a GAL22V10 was printed with the byte 255 in its column 4 and
\* zero everywhere else.
C13_Witness ==
    /\ RowDone
    /\ row_call.gal_type = GAL22V10
    /\ row_call.row = 131
    /\ row_call.data.hot = {131 * 44 + 4}
    /\ row_call.data.at = 255
    /\ row_call.text[CharAt(4)] = "-"
    /\ row_call.text[CharAt(3)] = "x"

FuseDone == fuse_call.pc = "done"

IsPin(piece) == piece.kind = "Pin"
IsRow(piece) == piece.kind = "Row"

\* The Pin lines and the fuse rows of the listing, in the order printed.
PinPieces == SelectSeq(fuse_call.buf, IsPin)
RowPieces == SelectSeq(fuse_call.buf, IsRow)

\* The places of the Pin lines in the listing.
PinPlaces == {p \in DOMAIN fuse_call.buf : IsPin(fuse_call.buf[p])}

\* The number of fuse rows that follow place p without a break.
RowsAfter(p) ==
    LET buf == fuse_call.buf
        stop == {q \in p + 1 .. Len(buf) + 1 : q = Len(buf) + 1 \/ ~ IsRow(buf[q])}
    IN  (CHOOSE q \in stop : \A r \in stop : q <= r) - p - 1

\* Rows per OLMC block, counted from the block of the highest pin.
olmc_capacity(gal_type, block) ==
    IF gal_type = GAL22V10
    THEN << 9, 11, 13, 15, 17, 17, 15, 13, 11, 9 >>[block + 1]
    ELSE 8

\* C14: the finished listing has one block per OLMC, from the chip's
\* highest output pin downwards, each with olmc_capacity rows; its fuse rows
\* are rows 0 .. row_count-1 in ascending order, each once; on GAL22V10 it
\* opens with AR and row 0 and closes with SP and row 131, and the other
\* chips have neither.
C14_FuseCoverage ==
    FuseDone =>
        LET t == fuse_call.gal_type
            c == i32_to_chip(t)
            buf == fuse_call.buf
        IN  /\ Len(PinPieces) = num_olmcs(c)
            /\ \A j \in 1 .. Len(PinPieces) :
                  PinPieces[j].pin = LastOlmcPin(c) - (j - 1)
            /\ \A p \in PinPlaces :
                  RowsAfter(p)
                    = olmc_capacity(t, Cardinality({q \in PinPlaces : q < p}))
            /\ Len(RowPieces) = row_count(t)
            /\ \A j \in 1 .. Len(RowPieces) : RowPieces[j].row = j - 1
            /\ buf[Len(buf)].kind = "End"
            /\ IF t = GAL22V10
               THEN /\ buf[1].kind = "AR"
                    /\ IsRow(buf[2]) /\ buf[2].row = 0
                    /\ IsPin(buf[3])
                    /\ buf[Len(buf) - 2].kind = "SP"
                    /\ IsRow(buf[Len(buf) - 1]) /\ buf[Len(buf) - 1].row = 131
                    /\ Cardinality({p \in DOMAIN buf : buf[p].kind \in {"AR", "SP"}}) = 2
               ELSE \A p \in DOMAIN buf : buf[p].kind \notin {"AR", "SP"}

\* A GAL22V10 listing is finished: 132 rows, ten blocks, the block of pin 19
\* with 17 rows, and the set fuse of the last row printed under SP.
C14_Witness ==
    /\ FuseDone
    /\ fuse_call.gal_type = GAL22V10
    /\ Len(RowPieces) = 132
    /\ \E p \in PinPlaces : fuse_call.buf[p].pin = 19 /\ RowsAfter(p) = 17
    /\ fuse_call.gal_fuse.hot = {fuse_size(GAL22V10) - 1}
    /\ fuse_call.buf[Len(fuse_call.buf) - 1].text[CharAt(43)] = "-"

PinDone == pin_call.pc = "done"

\* The Pin Type of pin n as the pin table is described.
PinType(gal_type, mode, types, n) ==
    LET c == i32_to_chip(gal_type) IN
    IF n = num_pins(c) \div 2 THEN "| GND\n"
    ELSE IF n = num_pins(c) THEN "| VCC\n\n"
    ELSE IF gal_type \in {GAL16V8, GAL20V8} /\ mode = MODE3 /\ n = 1
    THEN "| Clock\n"
    ELSE IF mode = MODE3 /\ (\/ gal_type = GAL16V8 /\ n = 11
                             \/ gal_type = GAL20V8 /\ n = 13)
    THEN "| /OE\n"
    ELSE IF gal_type = GAL22V10 /\ n = 1 THEN "| Clock/Input\n"
    ELSE IF pin_to_olmc(c, n) # << >>
    THEN LET code == byte(types, pin_to_olmc(c, n)[1]) IN
         CASE code = 0 -> "| NC\n"
           [] code = 2 -> "| Input\n"
           [] OTHER    -> "| Output\n"
    ELSE "| Input\n"

\* C15: the finished pin table has one entry per pin 1 .. num_pins, in
\* order, each with exactly one Pin Type cell, and the cell is the one the
\* type derivation gives for the chip, the mode and the pin-type codes.
C15_PinTypes ==
    PinDone =>
        LET q == pin_call
            c == i32_to_chip(q.gal_type)
        IN  /\ Len(q.buf) = num_pins(c)
            /\ \A n \in 1 .. Len(q.buf) :
                  /\ q.buf[n].pin = n
                  /\ q.buf[n].cells
                       = << PinType(q.gal_type, q.mode, q.olmc_pin_types, n) >>

\* A GAL22V10 table is finished in which pin 23 is an Input by its code,
\* pin 14 an Output, pin 24 VCC and pin 1 Clock/Input.
C15_Witness ==
    /\ PinDone
    /\ pin_call.gal_type = GAL22V10
    /\ pin_call.buf[23].cells = << "| Input\n" >>
    /\ pin_call.buf[14].cells = << "| Output\n" >>
    /\ pin_call.buf[24].cells = << "| VCC\n\n" >>
    /\ pin_call.buf[1].cells = << "| Clock/Input\n" >>

FuseCalled == fuse_call.pc \in {"olmc", "rows", "done"}
PinCalled == pin_call.pc \in {"loop", "done"}

\* C21: every index make_fuse has used is inside its slice as write_files_c
\* sizes it -- gal_fuse below row_width*row_count, gal_xor below 8 on
\* GAL16V8/GAL20V8 and below 10 on GAL22V10/GAL20RA10, gal_ac1 below 8,
\* gal_s1 below 10, OLMC_SIZE_22V10 below 12, pin_names below num_pins --
\* and every index make_pin has used into olmc_pin_types is below 12.
C21_IndicesInBounds ==
    /\ FuseCalled =>
          LET t == fuse_call.gal_type
              u == fuse_call.used
          IN  /\ u.fuse \subseteq 0 .. row_len(t) * row_count(t) - 1
              /\ u.xor \subseteq 0 .. (IF t \in {GAL16V8, GAL20V8} THEN 8 ELSE 10) - 1
              /\ u.ac1 \subseteq 0 .. 8 - 1
              /\ u.s1 \subseteq 0 .. 10 - 1
              /\ u.size \subseteq 0 .. 12 - 1
              /\ u.names \subseteq 0 .. num_pins(i32_to_chip(t)) - 1
    /\ PinCalled => pin_call.used \subseteq 0 .. 12 - 1

\* Both reports of a GAL22V10 are finished: make_fuse has read the last
\* fuse byte, the last gal_xor and gal_s1 entries, pin name 13 and size
\* entry 9, and make_pin has read pin type 9.
C21_Witness ==
    /\ fuse_call.pc = "done" /\ pin_call.pc = "done"
    /\ fuse_call.gal_type = GAL22V10
    /\ fuse_size(GAL22V10) - 1 \in fuse_call.used.fuse
    /\ 9 \in fuse_call.used.xor /\ 9 \in fuse_call.used.s1
    /\ 9 \in fuse_call.used.size
    /\ 13 \in fuse_call.used.names
    /\ 9 \in pin_call.used

====
